---- MODULE Spec2Model ----
(***************************************************************************)
(* auto-kg: concept graph ingestion (Neo4jKnowledgeGraph loaders), the     *)
(* persistent query backend (Cypher queries of neo4j_manager.py), the      *)
(* offline index built from the export files and the Flask query facade    *)
(* of web/app.py, and the breadth-first crawl of the Wikipedia scraper.    *)
(*                                                                         *)
(* Titles are non-empty strings for every top-level concept (the scraper   *)
(* and the extractor never emit an empty title); a relationship triple may *)
(* still carry an empty endpoint (""), the "missing endpoint" record.      *)
(* A relationship label is a sequence of one-character strings so that     *)
(* norm_type can be computed character by character; the stored type is    *)
(* the string the code writes into the Cypher statement.                   *)
(***************************************************************************)
EXTENDS Integers, Sequences, FiniteSets, TLC

VARIABLES
    data,       \* the ingestion output on disk / the loaders' input mapping
    form,       \* which export file exists: "processed", "raw" or "none"
    driver,     \* kg.driver: "none", "open", or "closed" once close() has run
    store,      \* the Neo4j store: [nodes, rels]; nodes maps a title to the
                \* properties and the number of the Concept nodes that carry it
    now,        \* the database clock read by datetime()
    loadRes,    \* outcome of the last loader call
    offline,    \* app.config['OFFLINE_GRAPH']: NoGraph or the built index
    builds,     \* how many times build_offline_graph has run
    pending,    \* a persistent call between two of its queries: a full export
                \* after its node read, statistics after one to three reads
    resp,       \* the last response of the query facade
    inflight,   \* the requests that are inside ensure_offline_graph, by worker
                \* thread: what each one found when it tested the cache
    scrape      \* a run of scrape_mathematics_knowledge_graph: its
                \* parameters, its locals and what it has fetched and stored

vars == <<data, form, driver, store, now, loadRes, offline, builds, pending, resp,
          inflight, scrape>>

-----------------------------------------------------------------------------
(* Bounds of the model *)

\* items (relationship entries and links) of an ingestion input
MaxItems == 2
\* ticks of the database clock
MaxClock == 1
\* items of an input served through the query facade
MaxFacadeItems == 2
\* pages of a chain of linked pages
MaxChain == 12
\* relationships in the store when create_relationship is called directly
MaxRels == 2
\* characters of a raw relationship label
MaxLabel == 4
\* worker threads that serve requests at the same time
MaxRequests == 2

-----------------------------------------------------------------------------
(* Small helpers *)

Max(x, y) == IF x >= y THEN x ELSE y
Min(x, y) == IF x <= y THEN x ELSE y

Range(s) == {s[i] : i \in DOMAIN s}

RECURSIVE SeqsUpTo(_, _)
SeqsUpTo(S, n) ==
    IF n = 0 THEN {<<>>}
    ELSE LET shorter == SeqsUpTo(S, n - 1)
         IN  shorter \cup {Append(s, x) : s \in shorter, x \in S}

-----------------------------------------------------------------------------
(* Relationship labels and their normalisation *)

UpperCase(c) ==
    CASE c = "a" -> "A" [] c = "e" -> "E" [] c = "i" -> "I"
      [] c = "s" -> "S" [] c = "u" -> "U" [] c = "t" -> "T"
      [] OTHER -> c

InAZ_(c) == c \in {"A", "E", "I", "S", "T", "U", "_"}

\* a variant that drops the hyphens with the other characters
RECURSIVE NormChars_drop(_)
NormChars_drop(cs) ==
    IF cs = <<>> THEN ""
    ELSE LET u == UpperCase(Head(cs))
         IN  (IF InAZ_(u) THEN u ELSE "") \o NormChars_drop(Tail(cs))

\* rt.upper().replace('-', '_'), then re.sub(r'[^A-Z_]', '', ...)
RECURSIVE NormChars(_)
NormChars(cs) ==
    IF cs = <<>> THEN ""
    ELSE LET u == UpperCase(Head(cs))
             c == IF u = "-" THEN "_" ELSE u
         IN  (IF InAZ_(c) THEN c ELSE "") \o NormChars(Tail(cs))

\* a label is [isstr, chars]; a JSON number or null has isstr = FALSE
norm_type(rt) == IF rt.isstr THEN NormChars(rt.chars) ELSE "RELATES_TO"

Label(cs) == [isstr |-> TRUE, chars |-> cs]
LblUses == Label(<<"u", "s", "e", "s">>)
LblIsA  == Label(<<"i", "s", "-", "a">>)

-----------------------------------------------------------------------------
(* The ingestion input *)

EmptyMeta == [summary |-> "", url |-> "", categories |-> <<>>]

\* the metadata a page of title k carries in its own record
Meta(k) == [summary |-> "sum-" \o k, url |-> "url-" \o k, categories |-> <<"cat-" \o k>>]

Triple(s, t, ty) == [arity |-> 3, src |-> s, tgt |-> t, rtype |-> ty]
\* an entry of wrong arity: only two fields
Malformed == [arity |-> 2, src |-> "a", tgt |-> "b", rtype |-> LblUses]

Record(k) ==
    [title |-> k,
     original_data |-> [summary |-> Meta(k).summary, url |-> Meta(k).url,
                        categories |-> Meta(k).categories, links |-> <<>>],
     relationships |-> <<>>]

RelItem(k, e) == [rec |-> k, kind |-> "rel", entry |-> e, link |-> ""]
LinkItem(k, l) == [rec |-> k, kind |-> "link", entry |-> Malformed, link |-> l]

AddItem(d, it) ==
    [i \in DOMAIN d |->
        IF d[i].title # it.rec THEN d[i]
        ELSE IF it.kind = "rel"
             THEN [d[i] EXCEPT !.relationships = Append(@, it.entry)]
             ELSE [d[i] EXCEPT !.original_data.links = Append(@, it.link)]]

RECURSIVE Build(_, _)
Build(keys, items) ==
    IF items = <<>> THEN [i \in DOMAIN keys |-> Record(keys[i])]
    ELSE AddItem(Build(keys, SubSeq(items, 1, Len(items) - 1)), items[Len(items)])

DataKeys(d) == {d[i].title : i \in DOMAIN d}

\* the raw form of the same pages: title -> original_data
Raw(d) == [i \in DOMAIN d |-> [d[i] EXCEPT !.relationships = <<>>]]

-----------------------------------------------------------------------------
(* The persistent store and its two upserts *)

EmptyStore == [nodes |-> <<>>, rels |-> {}]

HasNode(st, t) == t \in DOMAIN st.nodes

\* the Concept nodes that carry the title once MERGE has run
Copies(st, title) == IF HasNode(st, title) THEN st.nodes[title].copies ELSE 1

\* a variant that extends the stored categories instead of replacing them
create_concept_node_append(st, drv, title, summary, url, categories, t) ==
    IF drv = "none" THEN st
    ELSE [st EXCEPT !.nodes =
            (title :> [summary |-> summary, url |-> url,
                       categories |-> (IF title \in DOMAIN st.nodes
                                       THEN st.nodes[title].categories ELSE <<>>)
                                      \o categories,
                       created_at |-> t, copies |-> Copies(st, title)]) @@ @]

\* MERGE (c:Concept {title}) SET c.summary, c.url, c.categories, c.created_at.
\* MERGE creates a node only when none matches, and SET writes every match.
create_concept_node(st, drv, title, summary, url, categories, t) ==
    IF drv = "none" THEN st
    ELSE [st EXCEPT !.nodes =
            (title :> [summary |-> summary, url |-> url,
                       categories |-> categories, created_at |-> t,
                       copies |-> Copies(st, title)]) @@ @]

SameEdge(r, from, to, ty) == r.source = from /\ r.target = to /\ r.type = ty

\* a variant that creates a relationship on every call
create_relationship_new(st, from, to, ty, t) ==
    IF ~(HasNode(st, from) /\ HasNode(st, to)) THEN st
    ELSE [st EXCEPT !.rels = @ \cup
            {[id |-> Cardinality(st.rels) + 1, source |-> from, target |-> to,
              type |-> ty, created_at |-> t]}]

\* MATCH a, MATCH b, MERGE (a)-[r:type]->(b) SET r.created_at = datetime()
create_relationship(st, from, to, ty, t) ==
    IF ~(HasNode(st, from) /\ HasNode(st, to)) THEN st
    ELSE IF \E r \in st.rels : SameEdge(r, from, to, ty)
         THEN [st EXCEPT !.rels =
                 {IF SameEdge(r, from, to, ty) THEN [r EXCEPT !.created_at = t] ELSE r
                    : r \in @}]
         ELSE [st EXCEPT !.rels = @ \cup
                 {[id |-> Cardinality(st.rels) + 1, source |-> from, target |-> to,
                   type |-> ty, created_at |-> t]}]

-----------------------------------------------------------------------------
(* The loaders *)

\* first pass of both loaders: one upsert per top-level concept, in input order
RECURSIVE NodePass(_, _, _, _, _)
NodePass(st, drv, d, i, t) ==
    IF i > Len(d) THEN st
    ELSE LET orig == d[i].original_data
         IN  NodePass(create_concept_node(st, drv, d[i].title, orig.summary, orig.url,
                                          orig.categories, t),
                      drv, d, i + 1, t)

\* the (record, entry) pairs in the order the nested loops visit them
RECURSIVE RelWork(_, _)
RelWork(d, i) ==
    IF i > Len(d) THEN <<>>
    ELSE [j \in DOMAIN d[i].relationships |->
             [rec |-> d[i], entry |-> d[i].relationships[j]]] \o RelWork(d, i + 1)

\* the (title, link) pairs in the order the nested loops visit them
RECURSIVE LinkWork(_, _)
LinkWork(d, i) ==
    IF i > Len(d) THEN <<>>
    ELSE [j \in DOMAIN d[i].original_data.links |->
             [title |-> d[i].title, link |-> d[i].original_data.links[j]]]
         \o LinkWork(d, i + 1)

\* a variant without the default
StoredType_raw(rt) == norm_type(rt)

\* norm_type(rtype) or 'RELATES_TO'
StoredType(rt) == LET n == norm_type(rt) IN IF n = "" THEN "RELATES_TO" ELSE n

\* the body of the typed-relationship loop for one well-formed triple
RelStep(st, drv, keys, w, t) ==
    LET title == w.rec.title
        orig  == w.rec.original_data
        src_t == IF w.entry.src \in keys THEN w.entry.src ELSE title
        tgt_t == w.entry.tgt
        ty    == StoredType(w.entry.rtype)
        st1   == create_concept_node(st, drv, src_t, orig.summary, orig.url,
                                     orig.categories, t)
        st2   == IF tgt_t # title /\ tgt_t # ""
                 THEN create_concept_node(st1, drv, tgt_t, "", "", <<>>, t)
                 ELSE st1
    IN  create_relationship(st2, src_t, tgt_t, ty, t)

\* "for (src, tgt, rtype) in rels": an entry of another arity raises ValueError,
\* which nothing in the loader catches
RECURSIVE RelPass(_, _, _, _, _, _)
RelPass(st, drv, keys, work, k, t) ==
    IF k > Len(work) THEN [st |-> st, raised |-> FALSE]
    ELSE IF work[k].entry.arity # 3 THEN [st |-> st, raised |-> TRUE]
    ELSE RelPass(RelStep(st, drv, keys, work[k], t), drv, keys, work, k + 1, t)

\* a variant that does not test whether the link is a key
RECURSIVE LinkPass_all(_, _, _, _, _)
LinkPass_all(st, keys, work, k, t) ==
    IF k > Len(work) THEN st
    ELSE LinkPass_all(create_relationship(st, work[k].title, work[k].link, "LINKS_TO", t),
                      keys, work, k + 1, t)

\* LINKS_TO only towards a key of the input mapping
RECURSIVE LinkPass(_, _, _, _, _)
LinkPass(st, keys, work, k, t) ==
    IF k > Len(work) THEN st
    ELSE LinkPass(IF work[k].link \in keys
                  THEN create_relationship(st, work[k].title, work[k].link, "LINKS_TO", t)
                  ELSE st,
                  keys, work, k + 1, t)

load_processed_data(st, drv, d, t) ==
    IF drv = "none" THEN [st |-> st, raised |-> FALSE]
    ELSE LET keys == DataKeys(d)
             p1   == NodePass(st, drv, d, 1, t)
             p2   == RelPass(p1, drv, keys, RelWork(d, 1), 1, t)
         IN  IF p2.raised THEN p2
             ELSE [st |-> LinkPass(p2.st, keys, LinkWork(d, 1), 1, t), raised |-> FALSE]

\* with no driver create_concept_node only prints, and the first session use
\* (create_relationship, or get_graph_stats at the end) raises AttributeError
load_wikipedia_data(st, drv, d, t) ==
    IF drv = "none" THEN [st |-> st, raised |-> TRUE]
    ELSE [st |-> LinkPass(NodePass(st, drv, d, 1, t), DataKeys(d), LinkWork(d, 1), 1, t),
          raised |-> FALSE]

-----------------------------------------------------------------------------
(* Titles and their order *)

Digit(n) == <<"0", "1", "2", "3", "4", "5", "6", "7", "8", "9">>[n + 1]

\* the titles of a chain of pages: "n00", "n01", ...
ChainTitle(i) == "n" \o Digit(i \div 10) \o Digit(i % 10)

\* the titles of the model in string order; sorted() and the iteration of a
\* Python set are expressed through the position in this sequence
TitleOrder == <<"A", "a", "b", "c">> \o [i \in 1 .. 14 |-> ChainTitle(i - 1)]

Rank(t) == CHOOSE i \in DOMAIN TitleOrder : TitleOrder[i] = t

\* the elements of S, ascending (rev = FALSE) or descending (rev = TRUE)
RECURSIVE Ordered(_, _)
Ordered(S, rev) ==
    IF S = {} THEN <<>>
    ELSE LET m == CHOOSE x \in S : \A y \in S :
                     IF rev THEN Rank(x) >= Rank(y) ELSE Rank(x) <= Rank(y)
         IN  <<m>> \o Ordered(S \ {m}, rev)

-----------------------------------------------------------------------------
(* The offline index: build_offline_graph *)

NodeDict(title, orig) ==
    [id |-> title, label |-> title, summary |-> orig.summary, url |-> orig.url,
     categories |-> orig.categories]

EdgeDict(s, t, ty) == [source |-> s, target |-> t, relationship_type |-> ty]

\* str(rtype).upper(): no character is replaced or removed
RECURSIVE UpperChars(_)
UpperChars(cs) == IF cs = <<>> THEN "" ELSE UpperCase(Head(cs)) \o UpperChars(Tail(cs))

OfflineType(rt) == IF rt.isstr THEN UpperChars(rt.chars) ELSE "NONE"

\* the typed edges of one record: a wrong-arity entry is skipped (try/except),
\* an entry is kept only when both endpoints are top-level concepts
RECURSIVE OfflineRelEdges(_, _, _)
OfflineRelEdges(rels, j, keys) ==
    IF j > Len(rels) THEN <<>>
    ELSE (IF rels[j].arity = 3 /\ rels[j].src \in keys /\ rels[j].tgt \in keys
          THEN <<EdgeDict(rels[j].src, rels[j].tgt, OfflineType(rels[j].rtype))>>
          ELSE <<>>)
         \o OfflineRelEdges(rels, j + 1, keys)

RECURSIVE OfflineLinkEdges(_, _, _, _)
OfflineLinkEdges(title, links, j, keys) ==
    IF j > Len(links) THEN <<>>
    ELSE (IF links[j] \in keys THEN <<EdgeDict(title, links[j], "LINKS_TO")>> ELSE <<>>)
         \o OfflineLinkEdges(title, links, j + 1, keys)

\* per record: its relationships, then its links (the raw file has links only)
RECURSIVE OfflineEdges(_, _, _, _)
OfflineEdges(d, i, keys, typed) ==
    IF i > Len(d) THEN <<>>
    ELSE (IF typed THEN OfflineRelEdges(d[i].relationships, 1, keys) ELSE <<>>)
         \o OfflineLinkEdges(d[i].title, d[i].original_data.links, 1, keys)
         \o OfflineEdges(d, i + 1, keys, typed)

AdjOf(keys, edges) ==
    [k \in keys |->
        {edges[i].target : i \in {j \in DOMAIN edges : edges[j].source = k}}
        \cup {edges[i].source : i \in {j \in DOMAIN edges : edges[j].target = k}}]

build_offline_graph(d, f) ==
    IF f = "none"
    THEN [built |-> TRUE, nodes |-> <<>>, edges |-> <<>>, adj |-> <<>>, map |-> <<>>]
    ELSE LET keys  == DataKeys(d)
             edges == OfflineEdges(d, 1, keys, f = "processed")
         IN  [built |-> TRUE,
              nodes |-> [i \in DOMAIN d |-> NodeDict(d[i].title, d[i].original_data)],
              edges |-> edges,
              adj   |-> AdjOf(keys, edges),
              map   |-> [k \in keys |->
                           LET i == CHOOSE j \in DOMAIN d : d[j].title = k
                           IN  NodeDict(k, d[i].original_data)]]

\* ensure_offline_graph: build on first use, then reuse
ensure_offline_graph(off, d, f) == IF off.built THEN off ELSE build_offline_graph(d, f)

-----------------------------------------------------------------------------
(* Offline traversals of the facade: the fallback branches of get_subgraph and
   get_path.  rev is the order in which the neighbour sets are iterated. *)

\* str.lower() on the titles of the model
LowerTitle(t) == IF t = "A" THEN "a" ELSE t

\* exact title, else the first key that matches case-insensitively, else ""
ResolveRoot(off, root) ==
    IF root \in DOMAIN off.map THEN root
    ELSE LET m == {k \in DOMAIN off.map : LowerTitle(k) = LowerTitle(root)}
         IN  IF m = {} THEN "" ELSE Ordered(m, FALSE)[1]

\* a variant with the upper end of the range at 6
SubgraphDepth_wide(depth) == Max(1, Min(depth, 6))

SubgraphDepth(depth) == Max(1, Min(depth, 5))

\* the while-loop of the offline subgraph: q holds <<title, depth>> pairs
RECURSIVE SubgraphBFS(_, _, _, _, _, _, _)
SubgraphBFS(off, max_depth, rev, q, seen, nodes, edges) ==
    IF q = <<>> THEN [nodes |-> nodes, edges |-> edges]
    ELSE LET cur    == Head(q)[1]
             d      == Head(q)[2]
             nodes1 == Append(nodes, off.map[cur])
         IN  IF d = max_depth
             THEN SubgraphBFS(off, max_depth, rev, Tail(q), seen, nodes1, edges)
             ELSE LET nbs   == Ordered(off.adj[cur], rev)
                      fresh == SelectSeq(nbs, LAMBDA nb : nb \notin seen)
                  IN  SubgraphBFS(off, max_depth, rev,
                                  Tail(q) \o [i \in DOMAIN fresh |-> <<fresh[i], d + 1>>],
                                  seen \cup off.adj[cur],
                                  nodes1,
                                  edges \o [i \in DOMAIN nbs |->
                                              EdgeDict(cur, nbs[i], "RELATED")])

\* tuple(sorted([a, b]))
PairKey(e) ==
    IF Rank(e.source) <= Rank(e.target) THEN <<e.source, e.target>>
    ELSE <<e.target, e.source>>

\* keep the first edge of every unordered pair
RECURSIVE DedupEdges(_, _, _)
DedupEdges(edges, i, keys) ==
    IF i > Len(edges) THEN <<>>
    ELSE IF PairKey(edges[i]) \in keys THEN DedupEdges(edges, i + 1, keys)
    ELSE <<edges[i]>> \o DedupEdges(edges, i + 1, keys \cup {PairKey(edges[i])})

offline_subgraph(off, root, depth, rev) ==
    LET r == SubgraphBFS(off, SubgraphDepth(depth), rev, <<<<root, 0>>>>, {root}, <<>>, <<>>)
    IN  [nodes |-> r.nodes, edges |-> DedupEdges(r.edges, 1, {})]

\* a variant that searches one hop further
OfflinePathDepth_further(max_depth) == Max(1, Min(max_depth, 10)) + 1

OfflinePathDepth(max_depth) == Max(1, Min(max_depth, 10))

NoPrev == "<None>"

\* the for-loop over the neighbours of cur: stops at the target
RECURSIVE PathScan(_, _, _, _, _, _, _)
PathScan(nbs, i, cur, target, prev, depth_map, q) ==
    IF i > Len(nbs) THEN [prev |-> prev, depth_map |-> depth_map, q |-> q, found |-> FALSE]
    ELSE IF nbs[i] \in DOMAIN prev
         THEN PathScan(nbs, i + 1, cur, target, prev, depth_map, q)
    ELSE LET prev1  == (nbs[i] :> cur) @@ prev
             depth1 == (nbs[i] :> depth_map[cur] + 1) @@ depth_map
         IN  IF nbs[i] = target
             THEN [prev |-> prev1, depth_map |-> depth1, q |-> <<>>, found |-> TRUE]
             ELSE PathScan(nbs, i + 1, cur, target, prev1, depth1, Append(q, nbs[i]))

\* the while-loop of the offline shortest path
RECURSIVE PathBFS(_, _, _, _, _, _, _)
PathBFS(off, target, max_depth, rev, q, prev, depth_map) ==
    IF q = <<>> THEN [found |-> FALSE, prev |-> prev]
    ELSE LET cur == Head(q)
         IN  IF depth_map[cur] >= max_depth
             THEN PathBFS(off, target, max_depth, rev, Tail(q), prev, depth_map)
             ELSE LET r == PathScan(Ordered(off.adj[cur], rev), 1, cur, target,
                                    prev, depth_map, Tail(q))
                  IN  IF r.found THEN [found |-> TRUE, prev |-> r.prev]
                      ELSE PathBFS(off, target, max_depth, rev, r.q, r.prev, r.depth_map)

\* walk prev back from cur to the source; the result is already reversed
RECURSIVE Reconstruct(_, _)
Reconstruct(prev, cur) ==
    IF cur = NoPrev THEN <<>> ELSE Append(Reconstruct(prev, prev[cur]), cur)

\* a variant that reports the path of no edge from a title to itself
offline_path_zero(off, source, target, max_depth, rev) ==
    IF source = target THEN [nodes |-> <<off.map[source]>>, edges |-> <<>>]
    ELSE LET r == PathBFS(off, target, OfflinePathDepth(max_depth), rev, <<source>>,
                          (source :> NoPrev), (source :> 0))
         IN  IF ~r.found THEN [nodes |-> <<>>, edges |-> <<>>]
             ELSE LET path == Reconstruct(r.prev, target)
                  IN  [nodes |-> [i \in DOMAIN path |-> off.map[path[i]]],
                       edges |-> [i \in 1 .. (Len(path) - 1) |->
                                    EdgeDict(path[i], path[i + 1], "RELATED")]]

offline_path(off, source, target, max_depth, rev) ==
    LET r == PathBFS(off, target, OfflinePathDepth(max_depth), rev, <<source>>,
                     (source :> NoPrev), (source :> 0))
    IN  IF ~r.found THEN [nodes |-> <<>>, edges |-> <<>>]
        ELSE LET path == Reconstruct(r.prev, target)
             IN  [nodes |-> [i \in DOMAIN path |-> off.map[path[i]]],
                  edges |-> [i \in 1 .. (Len(path) - 1) |->
                               EdgeDict(path[i], path[i + 1], "RELATED")]]

-----------------------------------------------------------------------------
(* The persistent query backend: the Cypher queries of neo4j_manager.py, by
   the rows they produce on the store.  Result rows the database returns in no
   stated order are listed in title order. *)

AllowedTypes == {"LINKS_TO", "GENERALIZES", "SPECIALIZES", "USES", "RELATED_TO",
                 "IMPLIES", "PROVEN_BY", "RELATES_TO"}

DefaultLimit == 500

StoreNodeDict(st, k) == NodeDict(k, st.nodes[k])

RelDict(r) == EdgeDict(r.source, r.target, r.type)

\* the allowed relationships with an end at v, and the other end of one
Incident(st, allowed, v) ==
    {r \in st.rels : r.type \in allowed /\ (r.source = v \/ r.target = v)}

OtherEnd(r, v) == IF r.source = v THEN r.target ELSE r.source

\* relationship instances in the order of their creation
RECURSIVE RelsById(_)
RelsById(rs) ==
    IF rs = {} THEN <<>>
    ELSE LET m == CHOOSE r \in rs : \A q \in rs : r.id <= q.id
         IN  <<m>> \o RelsById(rs \ {m})

\* (root)-[r:types*1..k]-(n): every path that repeats no relationship, as the
\* pair of its end node and the relationships it uses
RECURSIVE Trails(_, _, _, _, _)
Trails(st, allowed, v, used, k) ==
    IF k = 0 THEN {}
    ELSE UNION {{[n |-> OtherEnd(r, v), rs |-> used \cup {r}]}
                \cup Trails(st, allowed, OtherEnd(r, v), used \cup {r}, k - 1)
                  : r \in Incident(st, allowed, v) \ used}

\* a variant with the upper end of the range at 6
ExportDepth_six(depth) == Max(1, Min(depth, 6))

ExportDepth(depth) == Max(1, Min(depth, 5))

EmptyGraph == [nodes |-> <<>>, edges |-> <<>>]

\* export_subgraph once the session is open.  UNWIND of an empty relationship
\* list leaves no row, and so does a root that matches no node or LIMIT 0:
\* result.single() is then None.
SubgraphRows(st, root, depth, allowed, limit) ==
    LET ts == IF HasNode(st, root) THEN Trails(st, allowed, root, {}, ExportDepth(depth))
              ELSE {}
        ns == {x.n : x \in ts}
        rs == UNION {x.rs : x \in ts}
    IN  IF rs = {} \/ limit = 0 THEN EmptyGraph
        ELSE [nodes |-> LET titles == <<root>> \o Ordered(ns \ {root}, FALSE)
                        IN  [i \in DOMAIN titles |-> StoreNodeDict(st, titles[i])],
              edges |-> LET rl == RelsById(rs) IN [i \in DOMAIN rl |-> RelDict(rl[i])]]

export_subgraph(st, drv, root, depth, allowed, limit) ==
    IF drv = "none" THEN EmptyGraph
    ELSE SubgraphRows(st, root, depth, allowed, limit)

\* undirected adjacency of the store over the allowed relationship types
StoreAdj(st, allowed) ==
    [v \in DOMAIN st.nodes |-> {OtherEnd(r, v) : r \in Incident(st, allowed, v)}]

RECURSIVE Ball(_, _, _)
Ball(adj, S, k) ==
    IF k = 0 THEN S ELSE Ball(adj, S \cup UNION {adj[v] : v \in S}, k - 1)

Unreachable == 0 - 1

\* hops of a shortest path from s to t if there is one of at most maxd hops
Dist(adj, s, t, maxd) ==
    LET ks == {k \in 0 .. maxd : t \in Ball(adj, {s}, k)}
    IN  IF ks = {} THEN Unreachable ELSE CHOOSE k \in ks : \A j \in ks : k <= j

\* the node sequences of the paths of exactly k hops from s to t
RECURSIVE PathsOfLength(_, _, _, _)
PathsOfLength(adj, s, t, k) ==
    IF k = 0 THEN (IF s = t THEN {<<s>>} ELSE {})
    ELSE UNION {{<<s>> \o p : p \in PathsOfLength(adj, n, t, k - 1)}
                  : n \in {m \in adj[s] : t \in Ball(adj, {m}, k - 1)}}

\* one relationship per hop of the node sequence p, in every possible way
RECURSIVE HopChoices(_, _, _, _)
HopChoices(st, allowed, p, i) ==
    IF i >= Len(p) THEN {<<>>}
    ELSE {<<RelDict(r)>> \o rest :
            r \in {x \in Incident(st, allowed, p[i]) :
                     x \in Incident(st, allowed, p[i + 1])
                     /\ (p[i] # p[i + 1] => x.source # x.target)},
            rest \in HopChoices(st, allowed, p, i + 1)}

PathDepth(max_depth) == Max(1, Min(max_depth, 8))

\* the results shortest_path may return once the session is open: the
\* database picks one shortest path.  No row (an absent endpoint, no path
\* within the bound) gives the empty result.
ShortestPathResults(st, source, target, max_depth) ==
    IF ~(HasNode(st, source) /\ HasNode(st, target)) THEN {EmptyGraph}
    ELSE LET adj == StoreAdj(st, AllowedTypes)
             h   == Dist(adj, source, target, PathDepth(max_depth))
         IN  IF h = Unreachable THEN {EmptyGraph}
             ELSE UNION {{[nodes |-> [i \in DOMAIN p |-> StoreNodeDict(st, p[i])],
                           edges |-> es] : es \in HopChoices(st, AllowedTypes, p, 1)}
                           : p \in PathsOfLength(adj, source, target, h)}

\* shortestPath() refuses a start node that is also the end node
ShortestPathRaises(st, source, target) == source = target /\ HasNode(st, source)

\* export_graph_data, first query: MATCH (c:Concept) RETURN c
ExportNodes(st) ==
    LET titles == Ordered(DOMAIN st.nodes, FALSE)
    IN  [i \in DOMAIN titles |-> StoreNodeDict(st, titles[i])]

\* export_graph_data, second query: MATCH (a:Concept)-[r]->(b:Concept)
ExportEdges(st) == LET rl == RelsById(st.rels) IN [i \in DOMAIN rl |-> RelDict(rl[i])]

-----------------------------------------------------------------------------
(* Search and statistics, persistent and offline *)

TitleChars(t) ==
    IF t \in {"A", "a", "b", "c"} THEN <<t>>
    ELSE LET i == CHOOSE j \in 0 .. 13 : ChainTitle(j) = t
         IN  <<"n", Digit(i \div 10), Digit(i % 10)>>

\* the characters of a title or of a summary of the model
TextChars(s) ==
    IF s = "" THEN <<>>
    ELSE IF s \in Range(TitleOrder) THEN TitleChars(s)
    ELSE LET k == CHOOSE t \in Range(TitleOrder) : s = "sum-" \o t
         IN  <<"s", "u", "m", "-">> \o TitleChars(k)

LowerChar(c) == IF c = "A" THEN "a" ELSE IF c = "S" THEN "s" ELSE c
LowerChars(cs) == [i \in DOMAIN cs |-> LowerChar(cs[i])]

RECURSIVE Strip(_)
Strip(cs) ==
    IF cs = <<>> THEN cs
    ELSE IF Head(cs) = " " THEN Strip(Tail(cs))
    ELSE IF cs[Len(cs)] = " " THEN Strip(SubSeq(cs, 1, Len(cs) - 1))
    ELSE cs

Contains(text, q) ==
    \E i \in 0 .. (Len(text) - Len(q)) : SubSeq(text, i + 1, i + Len(q)) = q

Hit(title, summary) == [title |-> title, summary |-> summary]

RECURSIVE Take(_, _)
Take(sq, n) == IF n <= 0 \/ sq = <<>> THEN <<>> ELSE <<Head(sq)>> \o Take(Tail(sq), n - 1)

\* search_concepts: toLower(c.title) CONTAINS toLower($query) OR the same on
\* the summary, LIMIT $limit; a negative LIMIT is refused by the database
SearchRaises(limit) == limit < 0

search_concepts(st, query, limit) ==
    LET q    == LowerChars(query)
        hits == {k \in DOMAIN st.nodes :
                    \/ Contains(LowerChars(TextChars(k)), q)
                    \/ Contains(LowerChars(TextChars(st.nodes[k].summary)), q)}
        ts   == Take(Ordered(hits, FALSE), limit)
    IN  [i \in DOMAIN ts |-> Hit(ts[i], st.nodes[ts[i]].summary)]

\* the offline search loop: the limit is tested after a hit is appended
RECURSIVE OfflineSearch(_, _, _, _, _)
OfflineSearch(nodes, i, q, limit, hits) ==
    IF i > Len(nodes) THEN hits
    ELSE IF \/ Contains(LowerChars(TextChars(nodes[i].id)), q)
            \/ Contains(LowerChars(TextChars(nodes[i].summary)), q)
         THEN LET hits1 == Append(hits, Hit(nodes[i].id, nodes[i].summary))
              IN  IF Len(hits1) >= limit THEN hits1
                  ELSE OfflineSearch(nodes, i + 1, q, limit, hits1)
         ELSE OfflineSearch(nodes, i + 1, q, limit, hits)

offline_search(off, query, limit) ==
    OfflineSearch(off.nodes, 1, Strip(LowerChars(query)), limit, <<>>)

TopConnected == 10

\* a variant that leaves the rows in the order it is given
SortByDegree_asis(sq) == sq

\* sorted(..., key=degree, reverse=True): stable, ties keep the given order
RECURSIVE SortByDegree(_)
SortByDegree(sq) ==
    IF sq = <<>> THEN <<>>
    ELSE LET i == CHOOSE j \in DOMAIN sq :
                     /\ \A k \in DOMAIN sq : sq[j][2] >= sq[k][2]
                     /\ \A k \in 1 .. (j - 1) : sq[k][2] < sq[j][2]
         IN  <<sq[i]>> \o SortByDegree(SubSeq(sq, 1, i - 1) \o SubSeq(sq, i + 1, Len(sq)))

Histogram(types) ==
    [ty \in Range(types) |-> Cardinality({i \in DOMAIN types : types[i] = ty})]

\* get_graph_stats: four queries in one session.  count(r) of
\* (c:Concept)-[r]-() is the number of relationships with an end at c;
\* concepts without relationship have no row; ties are listed in title order.
get_graph_stats(st) ==
    LET rl     == RelsById(st.rels)
        titles == Ordered({k \in DOMAIN st.nodes : Incident(st, {r.type : r \in st.rels}, k) # {}},
                          FALSE)
        deg    == [i \in DOMAIN titles |->
                     <<titles[i],
                       Cardinality(Incident(st, {r.type : r \in st.rels}, titles[i]))>>]
    IN  [concept_count |-> Cardinality(DOMAIN st.nodes),
         relationship_count |-> Cardinality(st.rels),
         relationship_types |-> Histogram([i \in DOMAIN rl |-> rl[i].type]),
         most_connected |-> Take(SortByDegree(deg), TopConnected)]

\* the fallback branch of get_stats: degree = size of the neighbour set
offline_stats(off) ==
    [concept_count |-> Len(off.nodes),
     relationship_count |-> Len(off.edges),
     relationship_types |->
         Histogram([i \in DOMAIN off.edges |-> off.edges[i].relationship_type]),
     most_connected |->
         Take(SortByDegree([i \in DOMAIN off.nodes |->
                              <<off.nodes[i].id, Cardinality(off.adj[off.nodes[i].id])>>]),
              TopConnected)]

NoStats == [concept_count |-> 0, relationship_count |-> 0, relationship_types |-> <<>>,
            most_connected |-> <<>>]

\* dict(node): the properties of a stored Concept node
ConceptProps(st, k) ==
    [title |-> k, summary |-> st.nodes[k].summary, url |-> st.nodes[k].url,
     categories |-> st.nodes[k].categories]

\* get_concept: MATCH (c:Concept {title: $title}) RETURN c; the empty tuple
\* stands for None
get_concept(st, title) == IF HasNode(st, title) THEN <<ConceptProps(st, title)>> ELSE <<>>

RelatedLimit == 10

\* get_related_concepts: one row per relationship with an end at the concept,
\* LIMIT $limit
get_related_concepts(st, title, limit) ==
    LET rl == Take(RelsById(Incident(st, {r.type : r \in st.rels}, title)), limit)
    IN  [i \in DOMAIN rl |->
           [concept |-> ConceptProps(st, OtherEnd(rl[i], title)),
            relationship_type |-> rl[i].type]]

-----------------------------------------------------------------------------
(* The scraper: WikipediaMathScraper.scrape_mathematics_knowledge_graph.  A
   wiki maps the titles of its pages to their links; a fetch of a page that
   exists can still fail. *)

\* the limits of get_page_content and of the loop on the links it follows
LinkCap == 50
TopLinks == 30

ExcludedTitle == "Help:p"

\* get_page_content: None (the empty tuple) when the page does not exist or
\* the request raised, else the content with links[:50]
get_page_content(wiki, title, outcome) ==
    IF title \notin DOMAIN wiki \/ outcome # "found" THEN <<>>
    ELSE <<[title |-> title, links |-> Take(wiki[title], LinkCap)]>>

\* extract_mathematical_links on the titles of the model: every title but the
\* one in an excluded namespace carries a keyword
extract_mathematical_links(links) == SelectSeq(links, LAMBDA l : l # ExcludedTitle)

\* score_link on the titles of the model
score_link(link) == IF link \in {"r", "x"} THEN 2 ELSE 0

\* the links followed from one page: scored, sorted by score (stable, highest
\* first), the first 30
top_links(page) ==
    LET math_links == extract_mathematical_links(page.links)
        scored     == [i \in DOMAIN math_links |-> <<math_links[i], score_link(math_links[i])>>]
        sorted     == Take(SortByDegree(scored), TopLinks)
    IN  [i \in DOMAIN sorted |-> sorted[i][1]]

\* the for-loop that appends the new topics: a link is appended unless it is
\* visited or already waiting
RECURSIVE Enqueue(_, _, _, _, _)
Enqueue(to_visit, links, i, visited_pages, depth) ==
    IF i > Len(links) THEN to_visit
    ELSE IF links[i] \notin visited_pages
            /\ \A j \in DOMAIN to_visit : to_visit[j][1] # links[i]
         THEN Enqueue(Append(to_visit, <<links[i], depth>>), links, i + 1, visited_pages, depth)
         ELSE Enqueue(to_visit, links, i + 1, visited_pages, depth)

\* a variant of the loop condition that admits one more page
LoopRuns_more(sc) == sc.to_visit # <<>> /\ Cardinality(sc.visited_pages) <= sc.max_pages

\* while to_visit and len(visited_pages) < self.max_pages
LoopRuns(sc) == sc.to_visit # <<>> /\ Cardinality(sc.visited_pages) < sc.max_pages

\* the scraper after __init__ and the first statements of the call.  fetches,
\* stores, depth_of and failed are not variables of the code: how often each
\* title was fetched and stored, the depth at which a stored page was taken
\* from the queue, and whether a fetch has failed.
StartScrape(max_pages, max_depth, seed_topics, wiki) ==
    [max_pages |-> max_pages, max_depth |-> max_depth, seed_topics |-> seed_topics,
     wiki |-> wiki, running |-> TRUE, done |-> FALSE,
     visited_pages |-> {},
     to_visit |-> [i \in DOMAIN seed_topics |-> <<seed_topics[i], 0>>],
     scraped_data |-> <<>>, fetches |-> <<>>, stores |-> <<>>, depth_of |-> <<>>,
     failed |-> FALSE]

NoScrape ==
    [max_pages |-> 0, max_depth |-> 0, seed_topics |-> <<>>, wiki |-> <<>>,
     running |-> FALSE, done |-> FALSE, visited_pages |-> {}, to_visit |-> <<>>,
     scraped_data |-> <<>>, fetches |-> <<>>, stores |-> <<>>, depth_of |-> <<>>,
     failed |-> FALSE]

Count(f, k) == IF k \in DOMAIN f THEN f[k] ELSE 0

\* one iteration of the while-loop
ScrapeIteration(sc, outcome) ==
    LET current_topic == Head(sc.to_visit)[1]
        depth         == Head(sc.to_visit)[2]
        popped        == [sc EXCEPT !.to_visit = Tail(@)]
    IN  IF current_topic \in sc.visited_pages THEN popped
        ELSE IF depth > sc.max_depth THEN popped
        ELSE LET page_data == get_page_content(sc.wiki, current_topic, outcome)
                 fetched   == [popped EXCEPT !.fetches =
                                 (current_topic :> Count(@, current_topic) + 1) @@ @]
             IN  IF page_data = <<>> THEN [fetched EXCEPT !.failed = TRUE]
                 ELSE LET visited == sc.visited_pages \cup {current_topic}
                      IN  [fetched EXCEPT
                             !.visited_pages = visited,
                             !.scraped_data = (current_topic :> page_data[1]) @@ @,
                             !.stores = (current_topic :> Count(@, current_topic) + 1) @@ @,
                             !.depth_of = (current_topic :> depth) @@ @,
                             !.to_visit = Enqueue(@, top_links(page_data[1]), 1, visited,
                                                  depth + 1)]

-----------------------------------------------------------------------------
(* Inputs of the ingestion specification *)

Endpoints == {"a", "b", "c"}

\* the input has the two top-level concepts "a" and "b", in this order; "c" is
\* a title that is not top-level.  The record of "a" takes every shape of entry,
\* the record of "b" those that name the other record's concept.
LoadKeys == <<"a", "b">>

LoadPool ==
    {RelItem("a", Triple(s, t, LblUses)) : s \in Endpoints, t \in Endpoints \cup {""}}
    \cup {RelItem("a", Triple("a", "c", LblIsA)), RelItem("a", Malformed)}
    \cup {LinkItem("a", l) : l \in Endpoints}
    \cup {RelItem("b", Triple("a", "b", LblUses)), RelItem("b", Triple("b", "a", LblUses)),
          RelItem("b", Triple("c", "c", LblUses)), RelItem("b", Malformed),
          LinkItem("b", "a")}

LoadData == {Build(LoadKeys, items) : items \in SeqsUpTo(LoadPool, MaxItems)}

-----------------------------------------------------------------------------
(* State *)

NoLoad == [op |-> "none", raised |-> FALSE, twice |-> FALSE]
NoGraph == [built |-> FALSE, nodes |-> <<>>, edges |-> <<>>, adj |-> <<>>, map |-> <<>>]
NoPending == [active |-> FALSE, op |-> "none", nodes |-> <<>>, at |-> 0, stats |-> NoStats]
NoArgs == [root |-> "", depth |-> 0, source |-> "", target |-> "", max_depth |-> 0,
           query |-> <<>>, limit |-> 0, concept_name |-> ""]

\* a response of the facade.  error is the 'error' member of the body ("" when
\* the body has none).  backend, up, order, raced and dropped are not
\* part of the JSON body: who computed the body, whether the persistent call
\* succeeded, the order in which the fallback iterated its neighbour sets,
\* whether the store changed between the two reads of a full export, and how
\* many edges the sanitising filter removed.
Response(op, args, backend, up) ==
    [op |-> op, args |-> args, status |-> 200, offline |-> FALSE, backend |-> backend,
     up |-> up, order |-> FALSE, raced |-> FALSE, dropped |-> 0,
     nodes |-> <<>>, edges |-> <<>>, results |-> <<>>, stats |-> NoStats,
     error |-> "", concept |-> <<>>, related |-> <<>>]

NoResp == Response("none", NoArgs, "none", FALSE)

\* no request is inside ensure_offline_graph
NoRequests == <<>>

InitLoad ==
    /\ data \in LoadData
    /\ form = "processed"
    /\ driver \in {"open", "none"}
    /\ store = EmptyStore
    /\ now = 0
    /\ loadRes = NoLoad
    /\ offline = NoGraph
    /\ builds = 0
    /\ pending = NoPending
    /\ resp = NoResp
    /\ inflight = NoRequests
    /\ scrape = NoScrape

\* time passes on the database clock
Tick ==
    /\ now < MaxClock
    /\ now' = now + 1
    /\ UNCHANGED <<data, form, driver, store, loadRes, offline, builds, pending, resp, inflight, scrape>>

LoadProcessed ==
    /\ form = "processed"
    /\ LET r == load_processed_data(store, driver, data, now)
       IN  /\ store' = r.st
           /\ loadRes' = [op |-> "load_processed", raised |-> r.raised,
                          twice |-> loadRes.op = "load_processed"]
    /\ UNCHANGED <<data, form, driver, now, offline, builds, pending, resp, inflight, scrape>>

LoadWikipedia ==
    /\ LET r == load_wikipedia_data(store, driver, Raw(data), now)
       IN  /\ store' = r.st
           /\ loadRes' = [op |-> "load_wikipedia", raised |-> r.raised,
                          twice |-> loadRes.op = "load_wikipedia"]
    /\ UNCHANGED <<data, form, driver, now, offline, builds, pending, resp, inflight, scrape>>

NextLoad == Tick \/ LoadProcessed \/ LoadWikipedia

SpecLoad == InitLoad /\ [][NextLoad]_vars

-----------------------------------------------------------------------------
(* Ingestion properties *)

NodeMeta(st, k) ==
    [summary |-> st.nodes[k].summary, url |-> st.nodes[k].url,
     categories |-> st.nodes[k].categories]

\* the store without its timestamps: titles with summary, url and categories,
\* and the relationship instances with source, target and type
Contents(st) ==
    [nodes |-> [k \in DOMAIN st.nodes |-> NodeMeta(st, k)],
     edges |-> {[id |-> r.id, source |-> r.source, target |-> r.target, type |-> r.type]
                  : r \in st.rels}]

\* C8: running a loader a second time right after it ran on the same input
\* leaves the nodes (title, summary, url, categories) and the edges
\* (source, target, type) of the store exactly as the first run left them.
C8_Idempotent ==
    [][((LoadProcessed /\ loadRes.op = "load_processed")
        \/ (LoadWikipedia /\ loadRes.op = "load_wikipedia"))
       => Contents(store') = Contents(store)]_vars

C8_Witness ==
    /\ driver = "open"
    /\ loadRes.twice /\ ~loadRes.raised
    /\ loadRes.op = "load_processed"
    /\ store.rels # {}
    /\ now > 0

\* C9: after load_processed_data has returned, every key of the input mapping
\* has a node carrying the summary, url and categories of its own record.
C9_KeysKeepOwnMetadata ==
    (driver = "open" /\ loadRes.op = "load_processed" /\ ~loadRes.raised)
    => \A k \in DataKeys(data) : HasNode(store, k) /\ NodeMeta(store, k) = Meta(k)

TripleEntries(d) ==
    UNION {{d[i].relationships[j] : j \in DOMAIN d[i].relationships} : i \in DOMAIN d}

\* C10: after a load_processed_data call, every relationship triple of the
\* input whose (non-empty) target is not a key of the mapping has a node for
\* that target, with empty summary, url and categories.
C10_TargetsAutoCreated ==
    (driver = "open" /\ loadRes.op = "load_processed")
    => \A e \in TripleEntries(data) :
          (e.arity = 3 /\ e.tgt # "" /\ e.tgt \notin DataKeys(data))
          => (HasNode(store, e.tgt) /\ NodeMeta(store, e.tgt) = EmptyMeta)

WellFormed(e) == e.arity = 3 /\ e.src # "" /\ e.tgt # ""

\* C11: after load_processed_data has returned, every well-formed triple
\* (s, t, ty) with non-empty endpoints has a node for s, a node for t and an
\* edge from s to t of the normalised type, also when s is not a key of the
\* mapping; and every typed edge of the store runs from the source of one of
\* the triples to that triple's target.
C11_EdgesFromTriples ==
    (driver = "open" /\ loadRes.op = "load_processed" /\ ~loadRes.raised)
    => /\ \A e \in TripleEntries(data) :
             WellFormed(e)
             => /\ HasNode(store, e.src) /\ HasNode(store, e.tgt)
                /\ \E r \in store.rels : SameEdge(r, e.src, e.tgt, StoredType(e.rtype))
       /\ \A r \in store.rels :
             r.type # "LINKS_TO"
             => \E e \in TripleEntries(data) :
                   WellFormed(e) /\ e.src = r.source /\ e.tgt = r.target

LinkEntries(d) ==
    UNION {{[title |-> d[i].title, link |-> d[i].original_data.links[j]]
              : j \in DOMAIN d[i].original_data.links} : i \in DOMAIN d}

\* C12: a load_processed_data call on an input with an entry of wrong arity
\* returns normally and has ingested every concept, every well-formed triple
\* (between keys of the mapping) and every link to a key of the same input.
C12_MalformedSkipped ==
    (driver = "open" /\ loadRes.op = "load_processed")
    => /\ ~loadRes.raised
       /\ \A k \in DataKeys(data) : HasNode(store, k)
       /\ \A e \in TripleEntries(data) :
             (WellFormed(e) /\ e.src \in DataKeys(data))
             => \E r \in store.rels : SameEdge(r, e.src, e.tgt, StoredType(e.rtype))
       /\ \A l \in LinkEntries(data) :
             l.link \in DataKeys(data)
             => \E r \in store.rels : SameEdge(r, l.title, l.link, "LINKS_TO")

\* C13: with no driver, a call of either loader returns without raising and
\* writes nothing.
C13_UnreachableStore ==
    (driver = "none" /\ loadRes.op # "none")
    => (~loadRes.raised /\ store = EmptyStore)

\* C14: no step changes the created_at of a Concept or of a relationship
\* that is already in the store.
C14_CreatedAtKept ==
    [][/\ \A k \in DOMAIN store.nodes :
             store'.nodes[k].created_at = store.nodes[k].created_at
       /\ \A r \in store.rels :
             \E q \in store'.rels : q.id = r.id /\ q.created_at = r.created_at]_vars

-----------------------------------------------------------------------------
(* The loader on one triple of every raw label *)

LabelChars == {"i", "s", "a", "A", "-", "_", "!"}

\* a JSON number or null in the place of the label
NotAString == [isstr |-> FALSE, chars |-> <<>>]

Labels == {Label(cs) : cs \in SeqsUpTo(LabelChars, MaxLabel)} \cup {NotAString}

NormData == {Build(LoadKeys, <<RelItem("a", Triple("a", "b", lbl))>>) : lbl \in Labels}

InitNorm ==
    /\ data \in NormData
    /\ form = "processed"
    /\ driver = "open"
    /\ store = EmptyStore
    /\ now = 0
    /\ loadRes = NoLoad
    /\ offline = NoGraph
    /\ builds = 0
    /\ pending = NoPending
    /\ resp = NoResp
    /\ inflight = NoRequests
    /\ scrape = NoScrape

NextNorm == LoadProcessed

SpecNorm == InitNorm /\ [][NextNorm]_vars

\* the raw label of the one triple of the input, and the types in the store
RawLabel == data[1].relationships[1].rtype
Loaded == loadRes.op = "load_processed" /\ ~loadRes.raised
TypesStored == {r.type : r \in store.rels}

LblEmpty == Label(<<>>)
LblBangs == Label(<<"!", "!", "!">>)

\* C17 as stated: the loader stores "is-a" as ISA, the empty label as
\* RELATES_TO and "!!!" as RELATES_TO.
C17_Examples ==
    Loaded => /\ RawLabel = LblIsA => TypesStored = {"ISA"}
              /\ RawLabel = LblEmpty => TypesStored = {"RELATES_TO"}
              /\ RawLabel = LblBangs => TypesStored = {"RELATES_TO"}

\* C17, amended: the loader stores "is-a" as IS_A (the hyphen becomes an
\* underscore, which is kept), the empty label as RELATES_TO and "!!!" as
\* RELATES_TO.
C17_ExamplesAmended ==
    Loaded => /\ RawLabel = LblIsA => TypesStored = {"IS_A"}
              /\ RawLabel = LblEmpty => TypesStored = {"RELATES_TO"}
              /\ RawLabel = LblBangs => TypesStored = {"RELATES_TO"}

C17_Witness == Loaded /\ RawLabel = LblIsA /\ TypesStored = {"IS_A"}

\* the rule for a relationship type, step by step
UpperAlphabet ==
    {"A", "B", "C", "D", "E", "F", "G", "H", "I", "J", "K", "L", "M", "N", "O", "P", "Q",
     "R", "S", "T", "U", "V", "W", "X", "Y", "Z", "_"}

Uppercased(c) == IF c = "i" THEN "I" ELSE IF c = "s" THEN "S" ELSE IF c = "a" THEN "A" ELSE c

RECURSIVE Join(_)
Join(cs) == IF cs = <<>> THEN "" ELSE Head(cs) \o Join(Tail(cs))

Relates == <<"R", "E", "L", "A", "T", "E", "S", "_", "T", "O">>

ExpectedType(rt) ==
    IF ~rt.isstr THEN Join(Relates)
    ELSE LET upper   == [i \in DOMAIN rt.chars |-> Uppercased(rt.chars[i])]
             unders  == [i \in DOMAIN upper |-> IF upper[i] = "-" THEN "_" ELSE upper[i]]
             kept    == SelectSeq(unders, LAMBDA c : c \in UpperAlphabet)
         IN  IF kept = <<>> THEN Join(Relates) ELSE Join(kept)

\* the non-empty strings over [A-Z_] a label of the model can give
ValidTypes ==
    {Join(cs) : cs \in {x \in SeqsUpTo({Uppercased(c) : c \in LabelChars}, MaxLabel) :
                          x # <<>> /\ Range(x) \subseteq UpperAlphabet}}
    \cup {Join(cs) : cs \in {x \in {Relates} : Range(x) \subseteq UpperAlphabet}}

\* C18: the type load_processed_data stores for a raw label is the label
\* uppercased, with hyphens replaced by underscores and the characters outside
\* [A-Z_] removed, or RELATES_TO when nothing is left or the label is not a
\* string; it is non-empty and made of characters of [A-Z_] only.
C18_StoredType ==
    Loaded => /\ TypesStored = {ExpectedType(RawLabel)}
              /\ TypesStored \subseteq ValidTypes

C18_Witness ==
    /\ Loaded
    /\ RawLabel = Label(<<"a", "-", "!", "s">>)
    /\ TypesStored = {"A_S"}

-----------------------------------------------------------------------------
(* The query facade: the routes of create_app *)

NodeIds(nodes) == {nodes[i].id : i \in DOMAIN nodes}

\* a variant that returns the edges as the backend gave them
Sanitize_keep(nodes, edges) == edges

\* the filter of get_graph and get_subgraph: keep an edge only when both ends
\* are in the returned node list
Sanitize(nodes, edges) ==
    SelectSeq(edges, LAMBDA e : e.source \in NodeIds(nodes) /\ e.target \in NodeIds(nodes))

WithGraph(r, g) == [r EXCEPT !.nodes = g.nodes, !.edges = g.edges]

Degraded(r) == [r EXCEPT !.offline = TRUE]

\* the worker serves one request at a time: no request is being handled and
\* the last response has been sent
Idle == ~pending.active /\ resp.op = "none"

\* every fallback branch starts with ensure_offline_graph()
Fallback ==
    /\ offline' = ensure_offline_graph(offline, data, form)
    /\ builds' = IF offline.built THEN builds ELSE builds + 1

OfflineFullGraph(up) ==
    Degraded(WithGraph(Response("graph", NoArgs, "offline", up), offline'))

\* get_graph up to the first query of export_graph_data
GetGraphStart(ok) ==
    /\ Idle
    /\ IF driver # "none" /\ ok
       THEN /\ pending' = [NoPending EXCEPT !.active = TRUE, !.op = "graph",
                                             !.nodes = ExportNodes(store)]
            /\ UNCHANGED <<offline, builds, resp>>
       ELSE /\ Fallback
            /\ resp' = OfflineFullGraph(FALSE)
            /\ UNCHANGED pending
    /\ UNCHANGED <<data, form, driver, store, now, loadRes, inflight, scrape>>

\* get_graph from the second query of export_graph_data to the response
GetGraphFinish(ok) ==
    /\ pending.active /\ pending.op = "graph"
    /\ pending' = NoPending
    /\ IF ok
       THEN LET edges == ExportEdges(store)
                clean == Sanitize(pending.nodes, edges)
            IN  /\ resp' = [Response("graph", NoArgs, "persistent", TRUE)
                              EXCEPT !.nodes = pending.nodes, !.edges = clean,
                                     !.raced = (ExportNodes(store) # pending.nodes),
                                     !.dropped = Len(edges) - Len(clean)]
                /\ UNCHANGED <<offline, builds>>
       ELSE /\ Fallback
            /\ resp' = OfflineFullGraph(FALSE)
    /\ UNCHANGED <<data, form, driver, store, now, loadRes, inflight, scrape>>

SubgraphArgs(root, depth) == [NoArgs EXCEPT !.root = root, !.depth = depth]

\* get_subgraph.  With no driver export_subgraph returns the empty graph
\* instead of raising, so the except branch is not taken.
GetSubgraph(root, depth, ok, rev) ==
    LET args == SubgraphArgs(root, depth)
    IN
    /\ Idle
    /\ IF root = ""
       THEN /\ resp' = [Response("subgraph", args, "none", FALSE) EXCEPT !.status = 400]
            /\ UNCHANGED <<offline, builds>>
       ELSE IF driver = "none" \/ ok
       THEN LET g     == export_subgraph(store, driver, root, depth, AllowedTypes,
                                         DefaultLimit)
                clean == Sanitize(g.nodes, g.edges)
            IN  /\ resp' = [Response("subgraph", args,
                                     IF driver = "none" THEN "stub" ELSE "persistent",
                                     driver # "none")
                              EXCEPT !.nodes = g.nodes, !.edges = clean,
                                     !.dropped = Len(g.edges) - Len(clean)]
                /\ UNCHANGED <<offline, builds>>
       ELSE /\ Fallback
            /\ LET r == ResolveRoot(offline', root)
               IN  resp' = IF r = ""
                           THEN [Response("subgraph", args, "offline", FALSE)
                                   EXCEPT !.status = 404]
                           ELSE Degraded(WithGraph([Response("subgraph", args, "offline", FALSE)
                                                      EXCEPT !.order = rev],
                                                   offline_subgraph(offline', r, depth, rev)))
    /\ UNCHANGED <<data, form, driver, store, now, loadRes, pending, inflight, scrape>>

PathArgs(source, target, max_depth) ==
    [NoArgs EXCEPT !.source = source, !.target = target, !.max_depth = max_depth]

\* get_path.  The persistent result is returned as it is.
GetPath(source, target, max_depth, ok, rev) ==
    LET args == PathArgs(source, target, max_depth)
    IN
    /\ Idle
    /\ IF source = "" \/ target = ""
       THEN /\ resp' = [Response("path", args, "none", FALSE) EXCEPT !.status = 400]
            /\ UNCHANGED <<offline, builds>>
       ELSE IF driver = "none"
       THEN /\ resp' = Response("path", args, "stub", FALSE)
            /\ UNCHANGED <<offline, builds>>
       ELSE IF ok /\ ~ShortestPathRaises(store, source, target)
       THEN /\ \E g \in ShortestPathResults(store, source, target, max_depth) :
                 resp' = WithGraph(Response("path", args, "persistent", TRUE), g)
            /\ UNCHANGED <<offline, builds>>
       ELSE /\ Fallback
            /\ resp' = Degraded(
                 IF source \notin DOMAIN offline'.map \/ target \notin DOMAIN offline'.map
                 THEN Response("path", args, "offline", FALSE)
                 ELSE WithGraph([Response("path", args, "offline", FALSE)
                                   EXCEPT !.order = rev],
                                offline_path(offline', source, target, max_depth, rev)))
    /\ UNCHANGED <<data, form, driver, store, now, loadRes, pending, inflight, scrape>>

ConceptArgs(concept_name) == [NoArgs EXCEPT !.concept_name = concept_name]

\* str(e) of the exception a failed backend call raises
BackendErrorText == "backend exception text"

\* the related list of the fallback branch of get_concept
OfflineRelated(off, concept_name, rev) ==
    LET nbs == Ordered(off.adj[concept_name], rev)
    IN  [i \in DOMAIN nbs |->
           [concept |-> off.map[nbs[i]], relationship_type |-> "RELATED"]]

\* get_concept.  The fallback branch is the else branch of "if concept": it is
\* inside the try block and is reached only when kg.get_concept returned None;
\* an exception of the backend call goes to the except branch, which answers
\* 500 with str(e).
GetConcept(concept_name, ok, rev) ==
    LET args == ConceptArgs(concept_name)
    IN
    /\ Idle
    /\ IF driver # "none" /\ ok
       THEN IF get_concept(store, concept_name) # <<>>
            THEN /\ resp' = [Response("concept", args, "persistent", TRUE)
                               EXCEPT !.concept = get_concept(store, concept_name),
                                      !.related = get_related_concepts(store, concept_name,
                                                                       RelatedLimit)]
                 /\ UNCHANGED <<offline, builds>>
            ELSE /\ Fallback
                 /\ resp' = IF concept_name \notin DOMAIN offline'.map
                            THEN [Response("concept", args, "offline", TRUE)
                                    EXCEPT !.status = 404, !.error = "Concept not found"]
                            ELSE LET node == offline'.map[concept_name]
                                 IN  [Response("concept", args, "offline", TRUE)
                                        EXCEPT !.order = rev,
                                               !.concept =
                                                  <<[title |-> node.id,
                                                     summary |-> node.summary,
                                                     url |-> node.url,
                                                     categories |-> node.categories]>>,
                                               !.related = OfflineRelated(offline',
                                                                          concept_name, rev)]
       ELSE /\ resp' = [Response("concept", args, "none", FALSE)
                          EXCEPT !.status = 500, !.error = BackendErrorText]
            /\ UNCHANGED <<offline, builds>>
    /\ UNCHANGED <<data, form, driver, store, now, loadRes, pending, inflight, scrape>>

\* close_db, the teardown of every request: kg.close() closes the driver,
\* which stays a (truthy) driver object
Teardown ==
    /\ resp.op # "none"
    /\ resp' = NoResp
    /\ driver' = IF driver = "open" THEN "closed" ELSE driver
    /\ UNCHANGED <<data, form, store, now, loadRes, offline, builds, pending, inflight, scrape>>

SearchArgs(query, limit) == [NoArgs EXCEPT !.query = query, !.limit = limit]

\* search_concepts: with no driver the session call raises AttributeError
Search(query, limit, ok) ==
    LET args == SearchArgs(query, limit)
    IN
    /\ Idle
    /\ IF driver # "none" /\ ok /\ ~SearchRaises(limit)
       THEN /\ resp' = [Response("search", args, "persistent", TRUE)
                          EXCEPT !.results = search_concepts(store, query, limit)]
            /\ UNCHANGED <<offline, builds>>
       ELSE /\ Fallback
            /\ resp' = Degraded([Response("search", args, "offline", FALSE)
                                   EXCEPT !.results = offline_search(offline', query, limit)])
    /\ UNCHANGED <<data, form, driver, store, now, loadRes, pending, inflight, scrape>>

\* get_stats
Stats(ok) ==
    /\ Idle
    /\ IF driver # "none" /\ ok
       THEN /\ resp' = [Response("stats", NoArgs, "persistent", TRUE)
                          EXCEPT !.stats = get_graph_stats(store)]
            /\ UNCHANGED <<offline, builds>>
       ELSE /\ Fallback
            /\ resp' = Degraded([Response("stats", NoArgs, "offline", FALSE)
                                   EXCEPT !.stats = offline_stats(offline')])
    /\ UNCHANGED <<data, form, driver, store, now, loadRes, pending, inflight, scrape>>

-----------------------------------------------------------------------------
(* The store under direct upserts and loader runs *)

StorePool ==
    {RelItem("a", Triple("a", "c", LblUses)), RelItem("a", Triple("a", "c", LblIsA)),
     LinkItem("a", "b")}

StoreData == {Build(LoadKeys, <<>>)} \cup {Build(LoadKeys, <<it>>) : it \in StorePool}

InitStore ==
    /\ data \in StoreData
    /\ form = "processed"
    /\ driver \in {"open", "none"}
    /\ store = EmptyStore
    /\ now = 0
    /\ loadRes = NoLoad
    /\ offline = NoGraph
    /\ builds = 0
    /\ pending = NoPending
    /\ resp = NoResp
    /\ inflight = NoRequests
    /\ scrape = NoScrape

\* a direct call of create_concept_node
CreateConcept(title, meta) ==
    /\ store' = create_concept_node(store, driver, title, meta.summary, meta.url,
                                    meta.categories, now)
    /\ loadRes' = [op |-> "create_concept_node", raised |-> FALSE, twice |-> FALSE]
    /\ UNCHANGED <<data, form, driver, now, offline, builds, pending, resp, inflight, scrape>>

\* a direct call of create_relationship: with no driver the session call
\* raises AttributeError
CreateRelationship(from, to, ty) ==
    /\ Cardinality(store.rels) < MaxRels
    /\ store' = IF driver = "none" THEN store
                ELSE create_relationship(store, from, to, ty, now)
    /\ loadRes' = [op |-> "create_relationship", raised |-> driver = "none",
                   twice |-> FALSE]
    /\ UNCHANGED <<data, form, driver, now, offline, builds, pending, resp, inflight, scrape>>

STitles == {"a", "c"}
STypes == {"USES", "LINKS_TO"}

NextStore ==
    \/ LoadProcessed
    \/ LoadWikipedia
    \/ \E title \in STitles : \E meta \in {EmptyMeta, Meta(title)} :
          CreateConcept(title, meta)
    \/ \E from, to \in STitles, ty \in STypes : CreateRelationship(from, to, ty)

SpecStore == InitStore /\ [][NextStore]_vars

\* C15: the store holds one Concept per title and one relationship per
\* (source, target, type), whatever calls were made.
C15_Unique ==
    /\ \A k \in DOMAIN store.nodes : store.nodes[k].copies = 1
    /\ \A r, q \in store.rels :
          (r.source = q.source /\ r.target = q.target /\ r.type = q.type) => r = q

\* after a repeated upsert, two relationships of different types join the
\* same pair
C15_Witness ==
    /\ loadRes.twice
    /\ \E r, q \in store.rels :
          r.source = q.source /\ r.target = q.target /\ r.type # q.type

-----------------------------------------------------------------------------
(* The facade over small inputs *)

FacadePool ==
    {RelItem("a", Triple("a", "b", LblUses)), RelItem("a", Triple("a", "b", LblIsA)),
     RelItem("a", Triple("a", "c", LblUses)), RelItem("b", Triple("b", "c", LblUses)),
     LinkItem("a", "b"), LinkItem("b", "a"), LinkItem("a", "c"), LinkItem("b", "b")}

FacadeData == {Build(LoadKeys, items) : items \in SeqsUpTo(FacadePool, MaxFacadeItems)}

HasNoRelationships(d) == \A i \in DOMAIN d : d[i].relationships = <<>>

InitFacade(inputs) ==
    /\ \/ form = "processed" /\ data \in inputs
       \/ form = "raw" /\ data \in {d \in inputs : HasNoRelationships(d)}
       \/ form = "none" /\ data = <<>>
    /\ driver \in {"open", "none"}
    /\ store = EmptyStore
    /\ now = 0
    /\ loadRes = NoLoad
    /\ offline = NoGraph
    /\ builds = 0
    /\ pending = NoPending
    /\ resp = NoResp
    /\ inflight = NoRequests
    /\ scrape = NoScrape

Init == InitFacade(FacadeData)

\* the autoload of create_app and the load commands: the processed file is
\* preferred, the raw file is loaded when it is the only one
Load ==
    \/ form = "processed" /\ LoadProcessed
    \/ form = "raw" /\ LoadWikipedia

QRoots == {"a", "b", "c", "A", ""}
QDepths == {1, 2}
QEnds == {"a", "b", "c"}
QSources == QEnds \cup {"A"}
QMaxDepths == {1, 2}
QQueries == {<<"A">>, <<" ", "b">>}
QLimits == {0 - 1, 0, 2}
QNames == {"a", "c"}

\* the iteration order matters to the fallback only
Orders(ok) == IF ok THEN {FALSE} ELSE BOOLEAN

Next ==
    \/ Load
    \/ Teardown
    \/ \E ok \in BOOLEAN : GetGraphStart(ok)
    \/ \E ok \in BOOLEAN : GetGraphFinish(ok)
    \/ \E root \in QRoots, depth \in QDepths, ok \in BOOLEAN : \E rev \in Orders(ok) :
          GetSubgraph(root, depth, ok, rev)
    \/ \E source \in QSources, target \in QEnds, max_depth \in QMaxDepths, ok \in BOOLEAN :
          \E rev \in Orders(ok) : GetPath(source, target, max_depth, ok, rev)
    \/ \E query \in QQueries, limit \in QLimits, ok \in BOOLEAN : Search(query, limit, ok)
    \/ \E ok \in BOOLEAN : Stats(ok)
    \/ \E concept_name \in QNames, ok \in BOOLEAN : \E rev \in Orders(~ok) :
          GetConcept(concept_name, ok, rev)

Spec == Init /\ [][Next]_vars

-----------------------------------------------------------------------------
(* The persistent backend called directly, as a library: the loaders and
   export_subgraph with a limit of the caller *)

\* a direct call of export_subgraph(root, depth, limit=limit) with the default
\* relationship types; the session call raises when the store is unreachable
ExportSubgraph(root, depth, limit, ok) ==
    LET args == [SubgraphArgs(root, depth) EXCEPT !.limit = limit]
    IN
    /\ resp' = IF driver = "none"
               THEN WithGraph(Response("export_subgraph", args, "stub", FALSE), EmptyGraph)
               ELSE IF ok
               THEN WithGraph(Response("export_subgraph", args, "persistent", TRUE),
                              export_subgraph(store, driver, root, depth, AllowedTypes, limit))
               ELSE [Response("export_subgraph", args, "none", FALSE)
                       EXCEPT !.error = BackendErrorText]
    /\ UNCHANGED <<data, form, driver, store, now, loadRes, offline, builds, pending,
                   inflight, scrape>>

XRoots == {"a", "c"}
XDepths == {1, 2}
XLimits == {0, 1, DefaultLimit}

NextExport ==
    \/ Load
    \/ \E root \in XRoots, depth \in XDepths, limit \in XLimits, ok \in BOOLEAN :
          ExportSubgraph(root, depth, limit, ok)

SpecExport == Init /\ [][NextExport]_vars

-----------------------------------------------------------------------------
(* Runs of the scraper on small wikis *)

\* pages fetched in one run, and BFS depth, at the most
MaxPages == 3
MaxDepth == 2

\* a wiki with a cycle, a repeated link, a link into an excluded namespace
\* and a link to a page that does not exist; and a plain chain
Wikis ==
    {("p" :> <<"q", "r", "q", ExcludedTitle>>) @@ ("q" :> <<"r", "p", "x">>)
        @@ ("r" :> <<"s">>) @@ ("s" :> <<"p">>),
     ("p" :> <<"q">>) @@ ("q" :> <<"r">>) @@ ("r" :> <<"s">>) @@ ("s" :> <<>>)}

SeedLists == {<<"p">>, <<"p", "p">>, <<"p", "s">>, <<"x", "q">>}

FetchOutcomes == {"found", "not found", "error"}

InitScrape ==
    /\ data = <<>>
    /\ form = "none"
    /\ driver = "none"
    /\ store = EmptyStore
    /\ now = 0
    /\ loadRes = NoLoad
    /\ offline = NoGraph
    /\ builds = 0
    /\ pending = NoPending
    /\ resp = NoResp
    /\ inflight = NoRequests
    /\ \E max_pages \in 0 .. MaxPages, max_depth \in 0 .. MaxDepth,
          seed_topics \in SeedLists, wiki \in Wikis :
          scrape = StartScrape(max_pages, max_depth, seed_topics, wiki)

ScrapeStep(outcome) ==
    /\ scrape.running /\ LoopRuns(scrape)
    /\ scrape' = ScrapeIteration(scrape, outcome)
    /\ UNCHANGED <<data, form, driver, store, now, loadRes, offline, builds, pending, resp,
                   inflight>>

\* the loop has ended: return scraped_data
ScrapeReturn ==
    /\ scrape.running /\ ~LoopRuns(scrape)
    /\ scrape' = [scrape EXCEPT !.running = FALSE, !.done = TRUE]
    /\ UNCHANGED <<data, form, driver, store, now, loadRes, offline, builds, pending, resp,
                   inflight>>

NextScrape ==
    \/ \E outcome \in FetchOutcomes : ScrapeStep(outcome)
    \/ ScrapeReturn

SpecScrape == InitScrape /\ [][NextScrape]_vars

\* the titles some walk of exactly k links reaches from the titles S
RECURSIVE ReachedIn(_, _, _)
ReachedIn(wiki, S, k) ==
    IF k = 0 THEN S
    ELSE ReachedIn(wiki, UNION {Range(wiki[t]) : t \in S \cap DOMAIN wiki}, k - 1)

\* C27: the scraper returns at most max_pages pages; every returned page was
\* taken from the queue at a depth of at most max_depth, which is the length
\* of a walk of links from a seed topic to the page; and no title was stored
\* more than once, whatever the fetches returned.
C27_ScrapeBounds ==
    scrape.done
    => /\ Cardinality(DOMAIN scrape.scraped_data) <= scrape.max_pages
       /\ \A t \in DOMAIN scrape.scraped_data :
             /\ scrape.depth_of[t] <= scrape.max_depth
             /\ t \in ReachedIn(scrape.wiki, Range(scrape.seed_topics), scrape.depth_of[t])
             /\ scrape.stores[t] = 1
       /\ DOMAIN scrape.stores = DOMAIN scrape.scraped_data

\* a run that stopped at max_pages with topics still waiting, after a failed
\* fetch and a second fetch of the same title
C27_Witness ==
    /\ scrape.done /\ scrape.failed
    /\ scrape.max_pages >= 2
    /\ Cardinality(DOMAIN scrape.scraped_data) = scrape.max_pages
    /\ scrape.to_visit # <<>>
    /\ \E t \in DOMAIN scrape.fetches : scrape.fetches[t] >= 2
    /\ \E t \in DOMAIN scrape.depth_of : scrape.depth_of[t] = scrape.max_depth

-----------------------------------------------------------------------------
(* Statistics while the store is written: get_graph_stats runs its four
   queries one after the other, each in its own auto-commit transaction, and
   a loader (the load command, another process) may commit in between *)

OfflineStats == Degraded([Response("stats", NoArgs, "offline", FALSE)
                            EXCEPT !.stats = offline_stats(offline')])

\* get_stats up to the first query of get_graph_stats: count(c)
GetStatsStart(ok) ==
    /\ Idle
    /\ IF driver # "none" /\ ok
       THEN /\ pending' = [NoPending EXCEPT
                             !.active = TRUE, !.op = "stats", !.at = 1,
                             !.stats.concept_count = get_graph_stats(store).concept_count]
            /\ UNCHANGED <<offline, builds, resp>>
       ELSE /\ Fallback
            /\ resp' = OfflineStats
            /\ UNCHANGED pending
    /\ UNCHANGED <<data, form, driver, store, now, loadRes, inflight, scrape>>

\* the next query of get_graph_stats: count(r), then the counts per type, then
\* the most connected concepts and the response
GetStatsNext(ok) ==
    /\ pending.active /\ pending.op = "stats"
    /\ IF ok
       THEN LET now_stats == get_graph_stats(store)
            IN  /\ IF pending.at = 1
                   THEN /\ pending' = [pending EXCEPT !.at = 2, !.stats.relationship_count =
                                                         now_stats.relationship_count]
                        /\ UNCHANGED resp
                   ELSE IF pending.at = 2
                   THEN /\ pending' = [pending EXCEPT !.at = 3, !.stats.relationship_types =
                                                         now_stats.relationship_types]
                        /\ UNCHANGED resp
                   ELSE /\ pending' = NoPending
                        /\ resp' = [Response("stats", NoArgs, "persistent", TRUE)
                                      EXCEPT !.stats = [pending.stats EXCEPT !.most_connected =
                                                          now_stats.most_connected]]
                /\ UNCHANGED <<offline, builds>>
       ELSE /\ Fallback
            /\ resp' = OfflineStats
            /\ pending' = NoPending
    /\ UNCHANGED <<data, form, driver, store, now, loadRes, inflight, scrape>>

NextStats ==
    \/ Load
    \/ Teardown
    \/ \E ok \in BOOLEAN : GetStatsStart(ok)
    \/ \E ok \in BOOLEAN : GetStatsNext(ok)

SpecStats == Init /\ [][NextStats]_vars

-----------------------------------------------------------------------------
(* The facade over chains of linked pages: the raw export of a crawl in which
   page i links to page i + 1 *)

ChainKeys == [i \in 1 .. MaxChain |-> ChainTitle(i - 1)]

\* gap > 0 leaves out the link into page gap; chord > 0 adds a link from page
\* chord - 1 to page chord + 1
ChainItems(gap, chord) ==
    LET hops == SelectSeq([i \in 1 .. (MaxChain - 1) |-> i], LAMBDA i : i # gap)
    IN  [i \in DOMAIN hops |-> LinkItem(ChainTitle(hops[i] - 1), ChainTitle(hops[i]))]
        \o (IF chord > 0 THEN <<LinkItem(ChainTitle(chord - 1), ChainTitle(chord + 1))>>
            ELSE <<>>)

Gaps == {0, 3, MaxChain - 2}
Chords == {0, 1, 2}

ChainData == {Build(ChainKeys, ChainItems(gap, chord)) : gap \in Gaps, chord \in Chords}

InitChain ==
    /\ form = "raw"
    /\ data \in ChainData
    /\ driver = "open"
    /\ store = EmptyStore
    /\ now = 0
    /\ loadRes = NoLoad
    /\ offline = NoGraph
    /\ builds = 0
    /\ pending = NoPending
    /\ resp = NoResp
    /\ inflight = NoRequests
    /\ scrape = NoScrape

CRoots == {ChainTitle(0), ChainTitle(5)}
CDepths == {0 - 1, 0, 1, 5, 6, 9}
CSources == {ChainTitle(0)}
CTargets == {ChainTitle(3), ChainTitle(9), ChainTitle(10), ChainTitle(MaxChain - 1)}
CMaxDepths == {0, 2, 6, 8, 10, 11}

NextChain ==
    \/ LoadWikipedia
    \/ Teardown
    \/ \E root \in CRoots, depth \in CDepths, ok \in BOOLEAN : \E rev \in Orders(ok) :
          GetSubgraph(root, depth, ok, rev)
    \/ \E source \in CSources, target \in CTargets, max_depth \in CMaxDepths,
          ok \in BOOLEAN :
          \E rev \in Orders(ok) : GetPath(source, target, max_depth, ok, rev)
    \/ \E ok \in BOOLEAN : Stats(ok)

SpecChain == InitChain /\ [][NextChain]_vars

-----------------------------------------------------------------------------
(* Requests served at the same time by the threads of app.run: the fallback
   branch in two steps, the test of the cache and the rest *)

Threads == 1 .. MaxRequests

RaceOps == {"graph", "stats"}

\* the persistent call of request t has failed; ensure_offline_graph tests
\* app.config['OFFLINE_GRAPH'] is None
FallbackTest(t, op) ==
    /\ t \notin DOMAIN inflight
    /\ inflight' = (t :> [op |-> op, sawNone |-> ~offline.built]) @@ inflight
    /\ UNCHANGED <<data, form, driver, store, now, loadRes, offline, builds, pending, resp, scrape>>

\* request t builds and stores the index if its test found none, then answers
\* from app.config['OFFLINE_GRAPH']
FallbackAnswer(t) ==
    /\ t \in DOMAIN inflight
    /\ offline' = IF inflight[t].sawNone THEN build_offline_graph(data, form) ELSE offline
    /\ builds' = IF inflight[t].sawNone THEN builds + 1 ELSE builds
    /\ resp' = IF inflight[t].op = "graph" THEN OfflineFullGraph(FALSE)
               ELSE Degraded([Response("stats", NoArgs, "offline", FALSE)
                                EXCEPT !.stats = offline_stats(offline')])
    /\ inflight' = [u \in DOMAIN inflight \ {t} |-> inflight[u]]
    /\ UNCHANGED <<data, form, driver, store, now, loadRes, pending, scrape>>

NextRace ==
    \/ \E t \in Threads, op \in RaceOps : FallbackTest(t, op)
    \/ \E t \in Threads : FallbackAnswer(t)

SpecRace == Init /\ [][NextRace]_vars

\* C19: build_offline_graph runs at most once in the life of the process,
\* however the requests that need the fallback interleave.
C19_BuiltOnce == builds <= 1

-----------------------------------------------------------------------------
(* The facade in front of a store that is reachable all the time: a backend
   call can only fail for what close() did to the driver.  Whether a closed
   driver still serves a session depends on the version of the neo4j package
   (older ones reconnect with a warning, newer ones raise). *)

Usable(reuse) == driver = "open" \/ (driver = "closed" /\ reuse)

NextTeardown ==
    \/ Load
    \/ Teardown
    \/ \E reuse \in BOOLEAN : Stats(Usable(reuse))
    \/ \E query \in QQueries, limit \in QLimits \ {0 - 1}, reuse \in BOOLEAN :
          Search(query, limit, Usable(reuse))

SpecTeardown == Init /\ [][NextTeardown]_vars

-----------------------------------------------------------------------------
(* Properties of the facade *)

FacadeQueries == {"graph", "subgraph", "path", "search", "stats"}

\* a step in which the facade answers a query
Answers(op) == resp.op = "none" /\ resp'.op = op

\* C1: a 200 response of any of the five queries that was computed while the
\* persistent backend was unavailable (no driver, or the backend call failed)
\* comes from the offline index and carries offline: true.
C1_FallbackTagged ==
    (resp.op \in FacadeQueries /\ resp.status = 200 /\ ~resp.up)
    => (resp.offline /\ resp.backend = "offline")

\* C2: every edge of a full-graph, subgraph or shortest-path response has its
\* source and its target among the nodes of the same response.
C2_EdgeValidity ==
    resp.op \in {"graph", "subgraph", "path"}
    => \A i \in DOMAIN resp.edges :
          /\ resp.edges[i].source \in NodeIds(resp.nodes)
          /\ resp.edges[i].target \in NodeIds(resp.nodes)

\* ingestion ran between the two reads of a full export and the filter removed
\* the edges whose ends the node read had not seen
C2_Witness ==
    /\ resp.op = "graph" /\ resp.backend = "persistent"
    /\ resp.raced /\ resp.dropped > 0

\* C3: a subgraph answer for a root that exists in the backend that served it
\* contains the root, whatever the depth and also when the root has no
\* neighbour.
C3_RootIncluded ==
    [][(Answers("subgraph") /\ resp'.status = 200)
       => /\ (resp'.backend = "persistent" /\ HasNode(store, resp'.args.root))
                => resp'.args.root \in NodeIds(resp'.nodes)
          /\ resp'.backend = "offline"
                => ResolveRoot(offline', resp'.args.root) \in NodeIds(resp'.nodes)]_vars

\* the links of the input that name a key of the mapping, as (title, link)
LinksToKeys(d) ==
    {<<l.title, l.link>> : l \in {x \in LinkEntries(d) : x.link \in DataKeys(d)}}

TripleEnds(d) == UNION {{e.src, e.tgt} : e \in TripleEntries(d)}

\* C16: once a loader has returned, the LINKS_TO edges of the store are the
\* links of the input that name a key of the mapping, and a link to any other
\* title has created no node; the same holds for the offline index, whose
\* nodes are the keys.
C16_LinksToKeys ==
    /\ (driver # "none" /\ loadRes.op # "none" /\ ~loadRes.raised)
       => /\ {<<r.source, r.target>> : r \in {x \in store.rels : x.type = "LINKS_TO"}}
                = LinksToKeys(data)
          /\ \A l \in LinkEntries(data) :
                (l.link \notin DataKeys(data) /\ l.link \notin TripleEnds(data))
                => ~HasNode(store, l.link)
    /\ offline.built
       => /\ {<<offline.edges[i].source, offline.edges[i].target>>
                 : i \in {j \in DOMAIN offline.edges :
                            offline.edges[j].relationship_type = "LINKS_TO"}}
                = LinksToKeys(data)
          /\ NodeIds(offline.nodes) = DataKeys(data)

\* a page with a link to a key and a link to a title that is no key, loaded
\* and indexed
C16_Witness ==
    /\ loadRes.op # "none" /\ ~loadRes.raised /\ driver # "none" /\ offline.built
    /\ \E l \in LinkEntries(data) : l.link \notin DataKeys(data) /\ ~HasNode(store, l.link)
    /\ \E r \in store.rels : r.type = "LINKS_TO"

\* the endpoint pairs the data declares: well-formed triples and links
DeclaredPairs(d) ==
    UNION {{<<i, "rel", j>> : j \in {k \in DOMAIN d[i].relationships :
                                        d[i].relationships[k].arity = 3}}
           \cup {<<i, "link", j>> : j \in DOMAIN d[i].original_data.links}
             : i \in DOMAIN d}

PairEnds(d, e) ==
    IF e[2] = "rel"
    THEN {d[e[1]].relationships[e[3]].src, d[e[1]].relationships[e[3]].tgt}
    ELSE {d[e[1]].title, d[e[1]].original_data.links[e[3]]}

\* the data describes a forest: every set of k titles holds fewer than k of
\* the declared pairs (no loop, no pair declared twice, no longer cycle)
Acyclic(d) ==
    LET titles == UNION {PairEnds(d, e) : e \in DeclaredPairs(d)}
    IN  \A S \in SUBSET titles :
           S # {} => Cardinality({e \in DeclaredPairs(d) : PairEnds(d, e) \subseteq S})
                        < Cardinality(S)

\* the answer of the offline backend built from the same data
OfflineSubgraphNodes(d, f, root, depth) ==
    LET off == build_offline_graph(d, f)
        r   == ResolveRoot(off, root)
    IN  IF r = "" THEN {} ELSE NodeIds(offline_subgraph(off, r, depth, FALSE).nodes)

\* C4: a subgraph answer for depth d is the answer for depth
\* min(max(d, 1), 5), in the persistent backend and in the offline one.
C4_DepthClamped ==
    [][(Answers("subgraph") /\ resp'.status = 200)
       => LET a == resp'.args
              d == Max(1, Min(a.depth, 5))
          IN  /\ resp'.backend = "persistent"
                   => LET g == export_subgraph(store, driver, a.root, d, AllowedTypes,
                                               DefaultLimit)
                      IN  /\ resp'.nodes = g.nodes
                          /\ resp'.edges = Sanitize(g.nodes, g.edges)
              /\ resp'.backend = "offline"
                   => LET g == offline_subgraph(offline', ResolveRoot(offline', a.root), d,
                                                resp'.order)
                      IN  resp'.nodes = g.nodes /\ resp'.edges = g.edges]_vars

\* a request for depth 6 or more answered with the five nearest pages of a
\* chain that goes on
C4_Witness ==
    /\ resp.op = "subgraph" /\ resp.args.depth > 5 /\ resp.args.root = ChainTitle(0)
    /\ Len(resp.nodes) = 6
    /\ \A i \in 0 .. 6 : ChainTitle(i) \in DataKeys(data)
    /\ \A i \in DOMAIN data : data[i].title = ChainTitle(5)
                                 => data[i].original_data.links = <<ChainTitle(6)>>

\* the bound of the offline search: max_depth as get_path clamps it
OfflineBound(max_depth) == Max(1, Min(max_depth, 10))

\* C5: the offline shortest path between two distinct existing titles: when
\* their hop distance h is within the clamped max_depth the answer is a path
\* from source to target of h edges whose consecutive nodes are adjacent;
\* otherwise the answer has no node and no edge.
C5_ShortestPath ==
    (/\ resp.op = "path" /\ resp.backend = "offline"
     /\ resp.args.source # resp.args.target
     /\ resp.args.source \in DOMAIN offline.map /\ resp.args.target \in DOMAIN offline.map)
    => LET s == resp.args.source
           t == resp.args.target
           h == Dist(offline.adj, s, t, Cardinality(DOMAIN offline.map))
           n == resp.nodes
           e == resp.edges
       IN  IF h # Unreachable /\ h <= OfflineBound(resp.args.max_depth)
           THEN /\ Len(n) = h + 1 /\ Len(e) = h
                /\ n[1].id = s /\ n[Len(n)].id = t
                /\ \A i \in 1 .. h : /\ n[i + 1].id \in offline.adj[n[i].id]
                                     /\ e[i].source = n[i].id
                                     /\ e[i].target = n[i + 1].id
           ELSE n = <<>> /\ e = <<>>

\* the 3-hop pair of a plain chain: found with max_depth = 6
C5_Witness ==
    /\ resp.op = "path" /\ resp.backend = "offline"
    /\ resp.args.target = ChainTitle(3) /\ resp.args.max_depth = 6
    /\ Len(resp.edges) = 3

\* C6: a shortest-path answer for a max_depth above 8 is the answer for
\* max_depth = 8, in the persistent backend and in the offline one.
C6_PathDepthClamped ==
    [][(Answers("path") /\ resp'.status = 200 /\ resp'.args.max_depth > 8)
       => LET a == resp'.args
              g == [nodes |-> resp'.nodes, edges |-> resp'.edges]
          IN  /\ resp'.backend = "persistent"
                   => g \in ShortestPathResults(store, a.source, a.target, 8)
              /\ (/\ resp'.backend = "offline"
                  /\ a.source \in DOMAIN offline'.map /\ a.target \in DOMAIN offline'.map)
                   => g = offline_path(offline', a.source, a.target, 8, resp'.order)]_vars

\* C7: on acyclic processed data, once load_processed_data has run, a
\* non-empty depth-2 subgraph answer of the persistent backend has the node set
\* the offline backend returns for the same root.
C7_BackendsAgree ==
    [][(/\ Answers("subgraph") /\ resp'.backend = "persistent"
        /\ resp'.args.depth = 2 /\ resp'.nodes # <<>>
        /\ form = "processed" /\ loadRes.op = "load_processed" /\ ~loadRes.raised
        /\ Acyclic(data))
       => NodeIds(resp'.nodes) = OfflineSubgraphNodes(data, form, resp'.args.root, 2)]_vars

\* C20: the end of a request leaves the shared driver as the request found
\* it, and with a driver configured and the store reachable every search and
\* statistics answer is computed by the persistent backend from the store,
\* whatever requests were served before.
C20_Stateless ==
    [][/\ (resp.op # "none" /\ resp'.op = "none") => driver' = driver
       /\ (Answers("stats") /\ driver # "none")
             => (~resp'.offline /\ resp'.stats = get_graph_stats(store))
       /\ (Answers("search") /\ driver # "none")
             => /\ ~resp'.offline
                /\ resp'.results = search_concepts(store, resp'.args.query,
                                                    resp'.args.limit)]_vars

\* C21: no endpoint that reads the graph answers a backend fault with an
\* internal-error status or with the text of the backend exception: a fault
\* ends in an offline fallback answer or in a structured not-found answer.
C21_FaultsConverted ==
    (resp.op \in FacadeQueries \cup {"concept"} /\ ~resp.up)
    => /\ resp.status # 500
       /\ resp.error # BackendErrorText

\* C22: a search answer has at most limit results, and none when limit is
\* zero or negative, in the offline backend as in the persistent one.
C22_SearchLimit ==
    resp.op = "search" => Len(resp.results) <= Max(0, resp.args.limit)

\* the concepts of the backend in the order it enumerates them, and the
\* undirected degree of one: relationships with an end at the concept in the
\* store, size of the neighbour set in the offline index
StatsConcepts(persistent) ==
    IF persistent THEN Ordered(DOMAIN store.nodes, FALSE)
    ELSE [i \in DOMAIN offline'.nodes |-> offline'.nodes[i].id]

StatsDegree(persistent, t) ==
    IF persistent THEN Cardinality({r \in store.rels : r.source = t \/ r.target = t})
    ELSE Cardinality(offline'.adj[t])

\* C23: most_connected lists at most 10 distinct concepts with their undirected
\* degree, in non-increasing order of degree; no unlisted concept has a greater
\* degree than a listed one; concepts of equal degree keep the order in which
\* the backend enumerates them, so the list is a function of the graph alone.
\* In the offline backend the degree is the size of the neighbour set.
C23_MostConnected ==
    [][Answers("stats")
       => LET mc  == resp'.stats.most_connected
              p   == resp'.backend = "persistent"
              cs  == StatsConcepts(p)
              pos(t) == CHOOSE i \in DOMAIN cs : cs[i] = t
          IN  /\ Len(mc) <= 10
              /\ \A i \in DOMAIN mc :
                    /\ mc[i][1] \in Range(cs)
                    /\ mc[i][2] = StatsDegree(p, mc[i][1])
              /\ \A i, j \in DOMAIN mc :
                    i < j => /\ mc[i][1] # mc[j][1]
                             /\ mc[i][2] >= mc[j][2]
                             /\ mc[i][2] = mc[j][2] => pos(mc[i][1]) < pos(mc[j][1])
              /\ \A t \in Range(cs) \ {mc[i][1] : i \in DOMAIN mc} :
                    /\ Len(mc) = 10 \/ (p /\ StatsDegree(p, t) = 0)
                    /\ \A i \in DOMAIN mc : StatsDegree(p, t) <= mc[i][2]]_vars

\* more than ten stored pages of unequal degree, ten of them listed
C23_Witness ==
    /\ resp.op = "stats" /\ resp.backend = "persistent"
    /\ Len(resp.stats.most_connected) = 10
    /\ Cardinality(DOMAIN store.nodes) > 10
    /\ resp.stats.most_connected[1][2] > resp.stats.most_connected[10][2]

\* C24: the result of export_subgraph(root, depth, allowed_types, limit) on
\* the persistent backend has at most limit relationship instances.
C24_LimitBoundsRelationships ==
    (resp.op = "export_subgraph" /\ resp.backend = "persistent")
    => Len(resp.edges) <= resp.args.limit

\* C25: a subgraph answer lists every title once and has at most one edge per
\* endpoint pair: per (source, target) in the persistent backend, per
\* unordered pair of titles in the offline one.
C25_Deduplicated ==
    (resp.op = "subgraph" /\ resp.status = 200)
    => /\ \A i, j \in DOMAIN resp.nodes : resp.nodes[i].id = resp.nodes[j].id => i = j
       /\ \A i, j \in DOMAIN resp.edges :
             (IF resp.backend = "offline"
              THEN {resp.edges[i].source, resp.edges[i].target}
                      = {resp.edges[j].source, resp.edges[j].target}
              ELSE /\ resp.edges[i].source = resp.edges[j].source
                   /\ resp.edges[i].target = resp.edges[j].target)
             => i = j

\* the known titles that equal t when case is ignored
CaseMatches(off, t) == {k \in DOMAIN off.map : LowerTitle(k) = LowerTitle(t)}

\* the title a request names: t itself when it is known, else a known title
\* that equals it case-insensitively
Resolutions(off, t) == IF t \in DOMAIN off.map THEN {t} ELSE CaseMatches(off, t)

\* C26: in the offline backend a subgraph root and a shortest-path endpoint
\* without exact match is resolved to the known title it equals
\* case-insensitively and the query is answered for that title; not-found or
\* the empty answer for an unknown title is given only when no known title
\* matches case-insensitively.
C26_CaseInsensitive ==
    [][/\ (Answers("subgraph") /\ resp'.backend = "offline")
          => LET a == resp'.args
             IN  IF Resolutions(offline', a.root) = {} THEN resp'.status = 404
                 ELSE /\ resp'.status = 200
                      /\ \E r \in Resolutions(offline', a.root) :
                            LET g == offline_subgraph(offline', r, a.depth, resp'.order)
                            IN  resp'.nodes = g.nodes /\ resp'.edges = g.edges
       /\ (Answers("path") /\ resp'.backend = "offline")
          => LET a == resp'.args
             IN  IF Resolutions(offline', a.source) = {} \/ Resolutions(offline', a.target) = {}
                 THEN resp'.nodes = <<>> /\ resp'.edges = <<>>
                 ELSE \E s \in Resolutions(offline', a.source),
                         t \in Resolutions(offline', a.target) :
                         LET g == offline_path(offline', s, t, a.max_depth, resp'.order)
                         IN  resp'.nodes = g.nodes /\ resp'.edges = g.edges]_vars

\* hops from root to v in the adjacency index, Unreachable if there is no path
HopDistance(off, root, v) == Dist(off.adj, root, v, Cardinality(DOMAIN off.map))

Within(off, root, v, k) ==
    HopDistance(off, root, v) # Unreachable /\ HopDistance(off, root, v) <= k

\* C28: the offline subgraph of a resolved root has exactly the concepts
\* within the clamped depth of the root, each once, and one edge for a pair of
\* adjacent concepts exactly when one of the two is nearer to the root than
\* the clamped depth.
C28_OfflineSubgraphExact ==
    [][(Answers("subgraph") /\ resp'.backend = "offline" /\ resp'.status = 200)
       => LET off   == offline'
              root  == ResolveRoot(off, resp'.args.root)
              d     == Max(1, Min(resp'.args.depth, 5))
              pairs == {{u, v} : u \in DOMAIN off.map, v \in DOMAIN off.map}
              near  == {pr \in pairs :
                          /\ \E u, v \in pr : pr = {u, v} /\ v \in off.adj[u]
                          /\ \E u \in pr : Within(off, root, u, d - 1)}
          IN  /\ NodeIds(resp'.nodes) = {v \in DOMAIN off.map : Within(off, root, v, d)}
              /\ Len(resp'.nodes) = Cardinality(NodeIds(resp'.nodes))
              /\ {{resp'.edges[i].source, resp'.edges[i].target} : i \in DOMAIN resp'.edges}
                    = near
              /\ Len(resp'.edges) = Cardinality(near)]_vars

\* a triangle at the root: the edge between its two neighbours, both at the
\* maximum depth 1, is left out
C28_Witness ==
    /\ resp.op = "subgraph" /\ resp.backend = "offline" /\ resp.status = 200
    /\ resp.args.root = ChainTitle(0) /\ resp.args.depth = 1
    /\ offline.built /\ ChainTitle(2) \in offline.adj[ChainTitle(1)]
    /\ NodeIds(resp.nodes) = {ChainTitle(0), ChainTitle(1), ChainTitle(2)}
    /\ Len(resp.edges) = 2

\* the sum of the counts of a histogram
RECURSIVE SumCounts(_)
SumCounts(h) ==
    IF DOMAIN h = {} THEN 0
    ELSE LET k == CHOOSE x \in DOMAIN h : TRUE
         IN  h[k] + SumCounts([x \in DOMAIN h \ {k} |-> h[x]])

\* C29: in every stats response the counts of the relationship-type histogram
\* sum to relationship_count, also when a loader writes while the persistent
\* backend computes the statistics.
C29_StatsSnapshot ==
    resp.op = "stats" => SumCounts(resp.stats.relationship_types) = resp.stats.relationship_count

\* C30: the offline shortest path from a known title to itself has no node
\* and no edge, for every max_depth, whether or not the title is its own
\* neighbour.
C30_SameEndpointsEmpty ==
    [][(/\ Answers("path") /\ resp'.backend = "offline"
        /\ resp'.args.source = resp'.args.target
        /\ resp'.args.source \in DOMAIN offline'.map)
       => (resp'.status = 200 /\ resp'.nodes = <<>> /\ resp'.edges = <<>>)]_vars

\* the request names a page that links to itself
C30_Witness ==
    /\ resp.op = "path" /\ resp.backend = "offline"
    /\ resp.args.source = resp.args.target
    /\ offline.built /\ resp.args.source \in DOMAIN offline.map
    /\ resp.args.source \in offline.adj[resp.args.source]
    /\ resp.nodes = <<>>

====
